---- MODULE Spec2Model ----
(***************************************************************************)
(* Model of the review-analysis service of Task2: the retrying model call  *)
(* (call_llm), the extraction of a JSON object from the model's text       *)
(* (extract_json_from_response), the repair of summary, actions and        *)
(* sentiment (generate_summary_and_actions), the HTTP handlers that chain  *)
(* them (submit_review, predict_v1/v2/v3, predict_any) and save_submission *)
(* with its two stores (the CSV file and the MongoDB collection).          *)
(*                                                                         *)
(* Representation of Python values                                         *)
(*   str    [lead, core, trail]: lead whitespace characters, then core (a  *)
(*          string that is empty or begins and ends with a non-whitespace  *)
(*          character), then trail whitespace characters.  An all-         *)
(*          whitespace string has core "" and trail 0.                     *)
(*   value  a record tagged by j: "str" (s), "int" (n), "null", "bool" (b),*)
(*          "list" (items), "obj" (n keys), "substr" (the first `upto`     *)
(*          characters of s), "bad" (text that is no JSON value).          *)
(*   dict   a function from its keys to values.                            *)
(*   text   the model's output as a sequence of tokens: prose words, the   *)
(*          braces, commas, code-fence markers and "key": value members.   *)
(*          Whitespace between tokens is not represented: find, rfind,     *)
(*          json.loads and the \s* of the regular expressions ignore it.   *)
(***************************************************************************)
EXTENDS Integers, Sequences, FiniteSets, TLC

(***************************************************************************)
(* Bounds of the model                                                     *)
(***************************************************************************)
MaxPad == 1
MaxActions == 4
MaxRetriesBound == 3
MaxPipelines == 2
MaxWorkers == 2

(***************************************************************************)
(* Program constants                                                       *)
(***************************************************************************)
MinSummaryLen == 20
NumActions == 3
DefaultMaxRetries == 3
BackoffFactor == 2
FixedWait == 2
MinRating == 1
MaxRating == 5
MinLength == 10
MaxLength == 1000

Min(a, b) == IF a < b THEN a ELSE b

RECURSIVE Pow2(_)
Pow2(k) == IF k = 0 THEN 1 ELSE 2 * Pow2(k - 1)

(***************************************************************************)
(* Python str                                                              *)
(***************************************************************************)
Str(l, c, t) == [lead |-> l, core |-> c, trail |-> t]
Lit(c) == Str(0, c, 0)
EmptyStr == Lit("")

\* len(s)
StrLen(s) == s.lead + Len(s.core) + s.trail

\* s.strip()
strip(s) == Str(0, s.core, 0)

(***************************************************************************)
(* Python / JSON values                                                    *)
(***************************************************************************)
StrVal(s) == [j |-> "str", s |-> s]
IntVal(n) == [j |-> "int", n |-> n]
NullVal == [j |-> "null"]
BoolVal(b) == [j |-> "bool", b |-> b]
ListVal(items) == [j |-> "list", items |-> items]
ObjVal(n) == [j |-> "obj", n |-> n]
SubstrVal(s, k) == [j |-> "substr", s |-> s, upto |-> k]
BadVal == [j |-> "bad"]

\* json.loads accepts the value
WellFormed(v) == v.j \in {"str", "int", "null", "bool", "list", "obj"}

\* result.get(key, default)
Get(d, key, default) == IF key \in DOMAIN d THEN d[key] ELSE default

EmptyDict == [k \in {} |-> NullVal]

(***************************************************************************)
(* Text of a model response                                                *)
(***************************************************************************)
LB == [t |-> "lbrace"]
RB == [t |-> "rbrace"]
Comma == [t |-> "comma"]
Fence == [t |-> "fence"]
Prose(w) == [t |-> "prose", s |-> w]
Member(k, v) == [t |-> "member", key |-> k, val |-> v]

NoneResponse == [kind |-> "none"]
TextResponse(toks) == [kind |-> "text", toks |-> toks]

\* the marker f"ERROR: {msg}" of call_llm
ErrorMarker(msg) == TextResponse(<<Prose("ERROR"), Prose(msg)>>)

(***************************************************************************)
(* extract_json_from_response                                              *)
(***************************************************************************)
\* faulty variant of StartsWithError: the test is dropped
StartsWithNothing(toks) == FALSE

\* response_text.startswith('ERROR')
StartsWithError(toks) == Len(toks) > 0 /\ toks[1] = Prose("ERROR")

\* response_text.replace('``````', ''): six backticks are two adjacent fence
\* markers; a single marker is left in place.
RECURSIVE RemoveSixBackticks(_)
RemoveSixBackticks(toks) ==
    IF Len(toks) < 2 THEN toks
    ELSE IF toks[1] = Fence /\ toks[2] = Fence
         THEN RemoveSixBackticks(SubSeq(toks, 3, Len(toks)))
         ELSE <<toks[1]>> \o RemoveSixBackticks(Tail(toks))

\* text.find('{'), 0 standing for Python's -1 (positions are 1-based); in the
\* texts modelled an object-valued member never comes before the first '{'
FindLB(toks) ==
    LET S == {i \in 1..Len(toks) : toks[i] = LB}
    IN IF S = {} THEN 0 ELSE CHOOSE i \in S : \A k \in S : i <= k

\* the token ends with '}': a closing brace, or a member whose value is an
\* object
EndsWithRB(tok) ==
    tok = RB \/ (tok.t = "member" /\ tok.val.j = "obj")

\* text.rfind('}') + 1 as an exclusive end, here the position of the last
\* token that ends with '}' (0 when there is none)
RFindRB(toks) ==
    LET S == {i \in 1..Len(toks) : EndsWithRB(toks[i])}
    IN IF S = {} THEN 0 ELSE CHOOSE i \in S : \A k \in S : i >= k

\* a value json.loads accepts (list items included)
ValueParses(v) ==
    /\ WellFormed(v)
    /\ v.j = "list" => \A i \in 1..Len(v.items) : WellFormed(v.items[i])

\* json.loads(json_str) succeeds: '{', members separated by commas, '}'
JsonParses(slice) ==
    /\ Len(slice) >= 2
    /\ slice[1] = LB
    /\ slice[Len(slice)] = RB
    /\ LET inner == SubSeq(slice, 2, Len(slice) - 1)
       IN \/ inner = <<>>
          \/ /\ Len(inner) % 2 = 1
             /\ \A i \in 1..Len(inner) :
                   IF i % 2 = 1
                   THEN inner[i].t = "member" /\ ValueParses(inner[i].val)
                   ELSE inner[i] = Comma

\* the dict json.loads returns: every key of the object, a repeated key
\* keeping its last value
JsonLoads(slice) ==
    LET idx == {i \in 2..(Len(slice) - 1) : slice[i].t = "member"}
        keys == {slice[i].key : i \in idx}
        last(k) == CHOOSE i \in idx :
                      /\ slice[i].key = k
                      /\ \A m \in idx : slice[m].key = k => m <= i
    IN [k \in keys |-> slice[last(k)].val]

\* re.search(r'"key"\s*:\s*<shape>', text): position of the first member of
\* that key whose value begins as the pattern asks (0 when none)
FirstMatch(toks, key, shape) ==
    LET S == {i \in 1..Len(toks) :
                 /\ toks[i].t = "member"
                 /\ toks[i].key = key
                 /\ toks[i].val.j = shape
                 /\ shape = "int" => toks[i].val.n >= 0}
    IN IF S = {} THEN 0 ELSE CHOOSE i \in S : \A k \in S : i <= k

\* re.findall(r'"(.*?)"', actions_text): the quoted items, in order
QuotedItems(items) == SelectSeq(items, LAMBDA v : v.j = "str")

\* actions[:3]
FirstThree(items) == SubSeq(items, 1, Min(NumActions, Len(items)))

FallbackShape(key) ==
    CASE key = "predicted_stars" -> "int"
      [] key = "actions" -> "list"
      [] OTHER -> "str"

FiveKeys == {"predicted_stars", "explanation", "summary", "sentiment", "actions"}

\* the except json.JSONDecodeError branch: one regular expression per key
ManualExtraction(toks) ==
    LET found == {k \in FiveKeys : FirstMatch(toks, k, FallbackShape(k)) # 0}
        val(k) == toks[FirstMatch(toks, k, FallbackShape(k))].val
    IN [k \in found |->
          IF k = "actions"
          THEN ListVal(FirstThree(QuotedItems(val(k).items)))
          ELSE val(k)]

\* faulty variant of extract_json_from_response: json.loads is left out and
\* the fallback's expressions are always used
ExtractByExpressions(response) ==
    IF response.kind = "none" THEN EmptyDict
    ELSE IF response.toks = <<>> \/ StartsWithError(response.toks) THEN EmptyDict
    ELSE LET text == RemoveSixBackticks(response.toks)
             start == FindLB(text)
             end == RFindRB(text)
         IN IF start = 0 \/ end <= start THEN EmptyDict
            ELSE ManualExtraction(text)

extract_json_from_response(response) ==
    IF response.kind = "none" THEN EmptyDict
    ELSE IF response.toks = <<>> \/ StartsWithError(response.toks) THEN EmptyDict
    ELSE LET text == RemoveSixBackticks(response.toks)
             start == FindLB(text)
             end == RFindRB(text)
         IN IF start = 0 \/ end <= start THEN EmptyDict
            ELSE LET json_str == SubSeq(text, start, end)
                 IN IF JsonParses(json_str)
                    THEN JsonLoads(json_str)
                    ELSE ManualExtraction(text)

(***************************************************************************)
(* generate_summary_and_actions                                            *)
(***************************************************************************)
Positive == Lit("Positive")
Negative == Lit("Negative")
Mixed == Lit("Mixed")
Canonical == {Positive, Negative, Mixed}

\* "Positive" if user_rating >= 4 else "Negative" if user_rating <= 2 else "Mixed"
SentimentOfRating(user_rating) ==
    IF user_rating >= 4 THEN Positive
    ELSE IF user_rating <= 2 THEN Negative
    ELSE Mixed

\* the f-strings of the try block
FallbackSummary(user_rating) ==
    IF user_rating >= 4
    THEN Lit("Customer had a positive " \o ToString(user_rating)
             \o "-star experience with the restaurant. They appreciated various aspects of their visit.")
    ELSE IF user_rating <= 2
    THEN Lit("Customer had a disappointing " \o ToString(user_rating)
             \o "-star experience. Several issues affected their satisfaction.")
    ELSE Lit("Customer had a mixed " \o ToString(user_rating)
             \o "-star experience with both positive and negative aspects noted.")

\* the canned lists of the try block
FallbackActions(user_rating) ==
    IF user_rating >= 4
    THEN <<StrVal(Lit("Continue maintaining the high standards that earned this positive review")),
           StrVal(Lit("Share this positive feedback with the team to boost morale")),
           StrVal(Lit("Identify and replicate the successful elements mentioned"))>>
    ELSE IF user_rating <= 2
    THEN <<StrVal(Lit("Investigate the specific issues mentioned in this review immediately")),
           StrVal(Lit("Follow up with the customer to address their concerns")),
           StrVal(Lit("Implement corrective measures to prevent similar issues"))>>
    ELSE <<StrVal(Lit("Analyze the mixed feedback to identify improvement areas")),
           StrVal(Lit("Strengthen the positive aspects mentioned in the review")),
           StrVal(Lit("Address the concerns raised to enhance customer satisfaction"))>>

GatherMore == StrVal(Lit("Gather additional customer feedback for continuous improvement"))

\* the f-strings and lists of the except block
ExceptSummary(user_rating) ==
    IF user_rating >= 4
    THEN Lit("Customer had a positive " \o ToString(user_rating)
             \o "-star experience, expressing satisfaction with their visit.")
    ELSE IF user_rating <= 2
    THEN Lit("Customer had a disappointing " \o ToString(user_rating)
             \o "-star experience with several concerns raised.")
    ELSE Lit("Customer had a mixed " \o ToString(user_rating)
             \o "-star experience with both positive and negative feedback.")

ExceptActions(user_rating) ==
    IF user_rating >= 4
    THEN <<StrVal(Lit("Continue maintaining the high standards that earned this positive review")),
           StrVal(Lit("Share this positive feedback with the team")),
           StrVal(Lit("Monitor consistency in service quality"))>>
    ELSE IF user_rating <= 2
    THEN <<StrVal(Lit("Investigate the specific issues mentioned in this review")),
           StrVal(Lit("Follow up with the customer to address their concerns")),
           StrVal(Lit("Implement immediate corrective measures"))>>
    ELSE <<StrVal(Lit("Analyze the balanced feedback to identify improvement areas")),
           StrVal(Lit("Strengthen the positive aspects while addressing concerns")),
           StrVal(Lit("Gather more customer feedback to understand patterns"))>>

Raised == [status |-> "raise"]
Returned(summary, actions, sentiment) ==
    [status |-> "return", summary |-> summary, actions |-> actions,
     sentiment |-> sentiment]

\* bool(v)
Truthy(v) ==
    CASE v.j = "str" -> StrLen(v.s) > 0
      [] v.j = "int" -> v.n # 0
      [] v.j = "bool" -> v.b
      [] v.j = "list" -> Len(v.items) > 0
      [] v.j = "obj" -> v.n > 0
      [] v.j = "substr" -> Min(v.upto, StrLen(v.s)) > 0
      [] OTHER -> FALSE

\* len(v) is defined (str, list, dict); it raises TypeError otherwise
HasLen(v) == v.j \in {"str", "list", "obj", "substr"}
PyLen(v) ==
    CASE v.j = "str" -> StrLen(v.s)
      [] v.j = "list" -> Len(v.items)
      [] v.j = "obj" -> v.n
      [] v.j = "substr" -> Min(v.upto, StrLen(v.s))

\* v[:3] is defined (str, list); a dict raises TypeError
Sliceable(v) == v.j \in {"str", "list", "substr"}

\* faulty variant of Slice3: the slice is dropped
SliceNothing(v) == v

\* faulty variant of Slice3: the slice begins at the second entry
SliceFromSecond(v) ==
    IF v.j = "list" THEN ListVal(SubSeq(v.items, 2, Min(NumActions + 1, Len(v.items))))
    ELSE IF v.j = "substr" THEN SubstrVal(v.s, Min(v.upto, NumActions))
    ELSE SubstrVal(v.s, NumActions)

Slice3(v) ==
    IF v.j = "list" THEN ListVal(FirstThree(v.items))
    ELSE IF v.j = "substr" THEN SubstrVal(v.s, Min(v.upto, NumActions))
    ELSE SubstrVal(v.s, NumActions)

\* while len(actions) < 3: actions.append(...)
RECURSIVE PadActions(_)
PadActions(v) ==
    IF PyLen(v) < NumActions
    THEN PadActions(ListVal(Append(v.items, GatherMore)))
    ELSE v

\* faulty variant of ValidSentiment: the check is dropped
KeepSentiment(sentiment, user_rating) == sentiment

\* "Ensure sentiment is valid"
ValidSentiment(sentiment, user_rating) ==
    IF sentiment \notin Canonical THEN SentimentOfRating(user_rating) ELSE sentiment

\* "Generate fallback summary if empty"
ValidSummary(summary, user_rating) ==
    IF StrLen(summary) = 0 \/ StrLen(summary) < MinSummaryLen
    THEN FallbackSummary(user_rating)
    ELSE summary

\* the try block from `result` on: a triple, or an exception (.strip() of a
\* non-string, len() of a number, a slice of a dict)
Normalize(user_rating, result) ==
    LET sumv == Get(result, "summary", StrVal(EmptyStr))
        actv == Get(result, "actions", ListVal(<<>>))
        senv == Get(result, "sentiment", StrVal(Mixed))
    IN IF sumv.j # "str" \/ senv.j # "str" THEN Raised
       ELSE IF Truthy(actv) /\ ~HasLen(actv) THEN Raised
       ELSE LET sentiment == ValidSentiment(strip(senv.s), user_rating)
                summary == ValidSummary(strip(sumv.s), user_rating)
                actions == IF ~Truthy(actv) \/ PyLen(actv) < NumActions
                           THEN ListVal(FallbackActions(user_rating))
                           ELSE actv
            IN IF ~Sliceable(actions) THEN Raised
               ELSE Returned(summary, PadActions(Slice3(actions)), sentiment)

\* the try block from the model's reply on
TryBlock(user_rating, response) ==
    Normalize(user_rating, extract_json_from_response(response))

\* the except Exception block
ExceptBlock(user_rating) ==
    Returned(ExceptSummary(user_rating), ListVal(ExceptActions(user_rating)),
             SentimentOfRating(user_rating))

\* outcome: the remote call raised, or returned a reply
RemoteRaised == [kind |-> "raise"]
RemoteReply(response) == [kind |-> "reply", content |-> response]

\* faulty variant of generate_summary_and_actions: no except block
TryWithoutExcept(user_rating, outcome) ==
    IF outcome.kind = "raise" THEN Raised ELSE TryBlock(user_rating, outcome.content)

generate_summary_and_actions(user_rating, outcome) ==
    LET attempt == IF outcome.kind = "raise" THEN Raised
                   ELSE TryBlock(user_rating, outcome.content)
    IN IF attempt.status = "raise" THEN ExceptBlock(user_rating) ELSE attempt

(***************************************************************************)
(* Replies of the model to the summary prompt                              *)
(***************************************************************************)
Pads == 0..MaxPad

\* 19 and 20 characters: either side of the minimum summary length
SummaryCores == {"", "Too short", "Tasty food slow bar", "Tasty food, slow bar",
                 "Customer liked the food but not the wait."}

Strs(cores) ==
    {Str(l, c, t) : l \in Pads, t \in Pads, c \in cores} \ {Str(l, "", t) : l \in Pads, t \in 1..MaxPad}

SummaryValues == {StrVal(s) : s \in Strs(SummaryCores)} \cup {NullVal, IntVal(7)}

SentimentCores == {"", "Positive", "Negative", "Mixed", "positive", "Great!"}

SentimentValues ==
    {StrVal(Str(p, c, p)) : p \in Pads, c \in SentimentCores \ {""}}
        \cup {StrVal(EmptyStr), NullVal, IntVal(1)}

Action(i) == StrVal(Lit("action " \o ToString(i)))
ActionList(k) == [i \in 1..k |-> Action(i)]

ActionsValues ==
    {ListVal(ActionList(k)) : k \in 0..MaxActions}
        \cup {ListVal(<<IntVal(1), Action(2), Action(3)>>),
              StrVal(Lit("ab")), StrVal(Lit("fix the menu")),
              IntVal(0), IntVal(5), NullVal, BoolVal(TRUE), ObjVal(0), ObjVal(3)}

Absent == [j |-> "absent"]

\* the members of an object, a key left out when its value is Absent
RECURSIVE Members(_)
Members(pairs) ==
    IF pairs = <<>> THEN <<>>
    ELSE LET rest == Members(Tail(pairs))
             m == Member(pairs[1][1], pairs[1][2])
         IN IF pairs[1][2] = Absent THEN rest
            ELSE IF rest = <<>> THEN <<m>>
            ELSE <<m, Comma>> \o rest

Shapes == {"plain", "wrapped", "truncated", "garbled"}

\* a reply built around the object: alone, inside a code fence with prose
\* around it, cut before the closing brace, or with a member that is no JSON;
\* inside a code fence alone, after or before a sentence, after six
\* backticks, after a sentence that begins with the word ERROR, or with a
\* member more whose key is none of the five
Shaped(shape, members) ==
    CASE shape = "plain" -> <<LB>> \o members \o <<RB>>
      [] shape = "wrapped" ->
            <<Prose("Here is the analysis"), Fence, LB>> \o members
                \o <<RB, Fence, Prose("Let me know")>>
      [] shape = "truncated" -> <<LB>> \o members
      [] shape = "garbled" ->
            <<LB>> \o members
                \o (IF members = <<>> THEN <<>> ELSE <<Comma>>)
                \o <<Member("note", BadVal), RB>>
      [] shape = "fenced" -> <<Fence, LB>> \o members \o <<RB, Fence>>
      [] shape = "leading" -> <<Prose("Here is the analysis"), LB>> \o members \o <<RB>>
      [] shape = "trailing" -> <<LB>> \o members \o <<RB, Prose("Let me know")>>
      [] shape = "sixticks" -> <<Fence, Fence, LB>> \o members \o <<RB>>
      [] shape = "error_prose" ->
            <<Prose("ERROR"), Prose("handling at the counter was slow"), LB>>
                \o members \o <<RB>>
      [] shape = "extra" ->
            <<LB>> \o members
                \o (IF members = <<>> THEN <<>> ELSE <<Comma>>)
                \o <<Member("confidence", IntVal(9)), RB>>

SummaryReplies ==
    {TextResponse(Shaped(sh, Members(<<<<"summary", su>>, <<"actions", ac>>, <<"sentiment", se>>>>))) :
        sh \in Shapes,
        su \in SummaryValues \cup {Absent},
        ac \in ActionsValues \cup {Absent},
        se \in SentimentValues \cup {Absent}}
      \cup {NoneResponse, TextResponse(<<>>),
            TextResponse(<<Prose("I cannot analyze this review")>>),
            ErrorMarker("connection reset")}

SummaryOutcomes == {RemoteRaised} \cup {RemoteReply(r) : r \in SummaryReplies}

Ratings == MinRating..MaxRating

(***************************************************************************)
(* call_llm                                                                *)
(***************************************************************************)
\* an exception of client.chat.completions.create: its message, and whether
\* the lower-cased message contains "rate" and "429"
Error(msg, has_rate, has_429) == [msg |-> msg, has_rate |-> has_rate, has_429 |-> has_429]

Errors ==
    {Error("Rate limit reached for model", TRUE, FALSE),
     Error("Error code: 429", FALSE, TRUE),
     Error("Connection reset by peer", FALSE, FALSE),
     Error("list index out of range", FALSE, FALSE)}

RemoteFailed(e) == [kind |-> "raise", err |-> e]

\* faulty variant of ExceptionHandler: the last attempt's error is raised again
HandlerReraisesLast(max_retries_, attempt_, e) ==
    IF e.has_rate \/ e.has_429
    THEN [do |-> "continue", sleeps |-> <<Pow2(attempt_) * BackoffFactor>>]
    ELSE IF attempt_ < max_retries_ - 1
    THEN [do |-> "continue", sleeps |-> <<FixedWait>>]
    ELSE [do |-> "raise", sleeps |-> <<>>]

\* faulty variant of ExceptionHandler: the backoff is 2^attempt seconds
HandlerUnscaledBackoff(max_retries_, attempt_, e) ==
    IF e.has_rate \/ e.has_429
    THEN [do |-> "continue", sleeps |-> <<Pow2(attempt_)>>]
    ELSE IF attempt_ < max_retries_ - 1
    THEN [do |-> "continue", sleeps |-> <<FixedWait>>]
    ELSE [do |-> "return", sleeps |-> <<>>, value |-> ErrorMarker(e.msg)]

\* faulty variant of ExceptionHandler: the fixed wait also precedes the return
HandlerWaitsBeforeReturn(max_retries_, attempt_, e) ==
    IF e.has_rate \/ e.has_429
    THEN [do |-> "continue", sleeps |-> <<Pow2(attempt_) * BackoffFactor>>]
    ELSE IF attempt_ < max_retries_ - 1
    THEN [do |-> "continue", sleeps |-> <<FixedWait>>]
    ELSE [do |-> "return", sleeps |-> <<FixedWait>>, value |-> ErrorMarker(e.msg)]

\* what one pass of the loop does after the remote call raised e:
\* sleep and continue, or return the marker
ExceptionHandler(max_retries_, attempt_, e) ==
    IF e.has_rate \/ e.has_429
    THEN [do |-> "continue", sleeps |-> <<Pow2(attempt_) * BackoffFactor>>]
    ELSE IF attempt_ < max_retries_ - 1
    THEN [do |-> "continue", sleeps |-> <<FixedWait>>]
    ELSE [do |-> "return", sleeps |-> <<>>, value |-> ErrorMarker(e.msg)]

MaxRetriesExceeded == ErrorMarker("Max retries exceeded")

CallEvent(outcome) == [ev |-> "call", outcome |-> outcome]
SleepEvent(secs) == [ev |-> "sleep", secs |-> secs]

(***************************************************************************)
(* Replies of the model to the rating prompts                              *)
(***************************************************************************)
StarsValues ==
    {IntVal(n) : n \in (MinRating - 1)..(MaxRating + 1)} \cup {NullVal, StrVal(Lit("five"))}

ExplanationValues == {StrVal(Lit("Mostly positive, minor issues")), NullVal}

RatingReplies ==
    {TextResponse(Shaped(sh, Members(<<<<"predicted_stars", st>>, <<"explanation", ex>>>>))) :
        sh \in Shapes,
        st \in StarsValues \cup {Absent},
        ex \in ExplanationValues \cup {Absent}}
      \cup {NoneResponse, TextResponse(<<>>),
            TextResponse(<<Prose("I would rate this review four stars")>>)}

(***************************************************************************)
(* Texts given to extract_json_from_response                               *)
(***************************************************************************)
ExtractShapes ==
    Shapes \cup {"fenced", "leading", "trailing", "sixticks", "error_prose",
                 "extra"}

ExtractStars == {IntVal(4), StrVal(Lit("five")), BadVal, Absent}

ExtractExplanations ==
    {StrVal(Lit("Mostly positive, minor issues")), NullVal, BadVal, Absent}

ExtractSummaries ==
    {StrVal(Lit("Customer liked the food but not the wait.")),
     StrVal(Str(MaxPad, "Too short", MaxPad)), BadVal, Absent}

ExtractActions ==
    {ListVal(ActionList(k)) : k \in {0, 2, MaxActions}}
        \cup {ListVal(<<IntVal(1), Action(2), Action(3)>>), ObjVal(1), BadVal, Absent}

ExtractSentiments == {StrVal(Positive), StrVal(Lit("Great!")), BadVal, Absent}

\* the texts: an object of up to five fields in every shape, nothing, the
\* empty text, a sentence, and the markers call_llm returns
ExtractInputs ==
    {TextResponse(Shaped(sh, Members(<<<<"predicted_stars", st>>, <<"explanation", ex>>,
                                      <<"summary", su>>, <<"actions", ac>>,
                                      <<"sentiment", se>>>>))) :
        sh \in ExtractShapes, st \in ExtractStars, ex \in ExtractExplanations,
        su \in ExtractSummaries, ac \in ExtractActions, se \in ExtractSentiments}
      \cup {NoneResponse, TextResponse(<<>>),
            TextResponse(<<Prose("I cannot analyze this review")>>),
            MaxRetriesExceeded}
      \cup {ErrorMarker(e.msg) : e \in Errors}

(***************************************************************************)
(* generate_user_response                                                  *)
(***************************************************************************)
\* a reply that is plain text (the reply prompt asks for no JSON)
PlainResponse(s) == [kind |-> "plain", s |-> s]

CannedResponse(rating) ==
    IF rating >= 4
    THEN Lit("Thank you so much for your wonderful feedback! We're thrilled you enjoyed your experience with us.")
    ELSE IF rating = 3
    THEN Lit("Thank you for your honest feedback. We appreciate hearing about your experience and will work to improve.")
    ELSE Lit("We sincerely apologize for falling short of your expectations. Your feedback helps us improve our service.")

\* content.strip() raises on None; the bare except returns the canned text
generate_user_response(rating, outcome) ==
    IF outcome.kind = "raise" \/ outcome.content.kind = "none"
    THEN CannedResponse(rating)
    ELSE strip(outcome.content.s)

ReplyOutcomes ==
    {RemoteRaised, RemoteReply(NoneResponse),
     RemoteReply(PlainResponse(Str(0, "Thank you for visiting us, we will fix the wait.", 1)))}

(***************************************************************************)
(* Requests, pydantic models and save_submission                           *)
(***************************************************************************)
\* a review text: lead whitespace characters, body characters that begin and
\* end with a non-whitespace one, trail whitespace characters
ReviewText(l, b, t) == [lead |-> l, body |-> b, trail |-> t]
TextLen(x) == x.lead + x.body + x.trail

\* ReviewSubmission.clean_review: v.strip()
clean_review(x) ==
    IF x.body = 0 THEN ReviewText(0, 0, 0) ELSE ReviewText(0, x.body, 0)

RequestTexts ==
    {ReviewText(0, MinLength - 1, 0), ReviewText(0, MinLength, 0),
     ReviewText(1, MinLength - 2, 1), ReviewText(MinLength, 0, 0),
     ReviewText(0, MaxLength, 0), ReviewText(1, MaxLength, 0),
     ReviewText(0, MaxLength + 1, 0)}

RequestRatings == (MinRating - 1)..(MaxRating + 1)

\* Field(..., min_length=10, max_length=1000) on the text as sent
TextAccepted(x) == TextLen(x) >= MinLength /\ TextLen(x) <= MaxLength

\* faulty variant of ReviewSubmissionValid: the bounds ge, le and max_length
\* are left out
ReviewSubmissionUnbounded(rating, text) ==
    TextLen(text) >= MinLength

\* ReviewSubmission: rating ge=1 le=5, review_text within the length bounds
ReviewSubmissionValid(rating, text) ==
    /\ rating >= MinRating
    /\ rating <= MaxRating
    /\ TextAccepted(text)

\* PredictionRequest: review_text within the length bounds, prompt_version
\* one of v1, v2, v3
PromptVersions == {"v1", "v2", "v3"}
PredictionRequestValid(text, version) ==
    TextAccepted(text) /\ version \in PromptVersions

\* faulty variant of Subscript: d.get(key, 3)
SubscriptOrDefault(d, key) ==
    [ok |-> TRUE, val |-> IF key \in DOMAIN d THEN d[key] ELSE IntVal(3)]

\* d[key]: the value, or KeyError
Subscript(d, key) ==
    IF key \in DOMAIN d THEN [ok |-> TRUE, val |-> d[key]] ELSE [ok |-> FALSE]

\* the field accepts the value as an int / a str / a list of str
IsInt(v) == v.j = "int"
IsStr(v) == v.j = "str"
IsStrList(v) == v.j = "list" /\ \A i \in 1..Len(v.items) : v.items[i].j = "str"

\* AIResponse: predicted_stars int ge=1 le=5, explanation str,
\* recommended_actions list[str]
AIResponseValid(stars, explanation, actions) ==
    /\ IsInt(stars)
    /\ stars.n >= MinRating
    /\ stars.n <= MaxRating
    /\ IsStr(explanation)
    /\ IsStrList(actions)

\* PredictionResponse: predicted_stars int, explanation str
PredictionResponseValid(stars, explanation) ==
    IsInt(stars) /\ IsStr(explanation)

\* str(uuid.uuid4())[:8]
SubmissionIds == {"3f2a9c1e", "b07d44aa"}

\* save_submission: the row or document added to the store
save_submission(rows, id, data) ==
    Append(rows, [submission_id |-> id] @@ data)

HttpError == [code |-> 500]
Unprocessable == [code |-> 422]

\* the replies to the summary prompt a request of the handlers can meet
HandlerSummaryOutcomes ==
    {RemoteRaised,
     RemoteReply(NoneResponse),
     RemoteReply(TextResponse(Shaped("plain", Members(<<
         <<"summary", StrVal(Lit("Customer liked the food but not the wait."))>>,
         <<"actions", ListVal(ActionList(NumActions))>>,
         <<"sentiment", StrVal(Mixed)>>>>)))),
     RemoteReply(TextResponse(Shaped("plain", Members(<<
         <<"actions", StrVal(Lit("fix the menu"))>>>>))))}

(***************************************************************************)
(* State                                                                   *)
(***************************************************************************)
VARIABLES
    n_rating,     \* user_rating passed to generate_summary_and_actions
    n_outcome,    \* what the remote call of that function does
    n_result,     \* what the function returned ("pending" before the call)
    max_retries,  \* call_llm: its max_retries argument
    attempt,      \* call_llm: the loop variable
    events,       \* the remote calls and sleeps made so far, in order, by call_llm
                  \* or by the stage of submit_review that ran last
    llm_pc,       \* call_llm: "idle", "loop", "returned" or "raised"
    llm_ret,      \* call_llm: the value returned
    p_pc,         \* handler: the stage the request is at
    p_req,        \* handler: the request (endpoint, rating, review_text, version)
    p_raw,        \* predict_rating: raw_response
    p_prediction, \* handler: the dict predict_rating returned
    p_triple,     \* handler: (summary, actions, sentiment)
    p_reply,      \* handler: user_response
    p_resp,       \* handler: the HTTP response
    store,        \* the submissions saved (rows of the CSV file, documents)
    x_response,   \* response_text passed to extract_json_from_response
    x_result,     \* what that call returned ("pending" before the call)
    s_backend,    \* save_submission: "csv" (database.py) or "mongo" (server/database.py)
    s_worker,     \* for each pipeline, the server process that runs its handler
    s_pc,         \* for each pipeline, where its save_submission is
    s_id,         \* for each pipeline, submission_id
    s_df,         \* for each pipeline, df: the rows pd.read_csv returned
    s_data,       \* for each pipeline, the dict passed to save_submission
    a_report      \* what get_analytics returned last ("pending" before a call)

nvars == <<n_rating, n_outcome, n_result>>
lvars == <<max_retries, attempt, events, llm_pc, llm_ret>>
pvars == <<p_pc, p_req, p_raw, p_prediction, p_triple, p_reply, p_resp, store>>
vars == <<n_rating, n_outcome, n_result, max_retries, attempt, events, llm_pc, llm_ret,
          p_pc, p_req, p_raw, p_prediction, p_triple, p_reply, p_resp, store,
          x_response, x_result, s_backend, s_worker, s_pc, s_id, s_df,
          s_data, a_report>>

xvars == <<x_response, x_result>>
svars == <<s_backend, s_worker, s_pc, s_id, s_df, s_data, a_report>>

Pending == [status |-> "pending"]
Unset == [kind |-> "unset"]

NormalizeIdle ==
    /\ n_rating = MinRating
    /\ n_outcome = RemoteRaised
    /\ n_result = Pending

LlmIdle ==
    /\ max_retries = DefaultMaxRetries
    /\ attempt = 0
    /\ events = <<>>
    /\ llm_pc = "idle"
    /\ llm_ret = Unset

NoRequest == [endpoint |-> "none"]
NoResponse == [code |-> 0]

HandlerIdle ==
    /\ p_pc = "idle"
    /\ p_req = NoRequest
    /\ p_raw = Unset
    /\ p_prediction = EmptyDict
    /\ p_triple = Pending
    /\ p_reply = EmptyStr
    /\ p_resp = NoResponse
    /\ store = <<>>

ExtractIdle ==
    /\ x_response = NoneResponse
    /\ x_result = Pending

SaveIdle ==
    /\ s_backend = "csv"
    /\ s_worker = <<>>
    /\ s_pc = <<>>
    /\ s_id = <<>>
    /\ s_df = <<>>
    /\ s_data = <<>>
    /\ a_report = Pending

(***************************************************************************)
(* generate_summary_and_actions applied to every rating and outcome        *)
(***************************************************************************)
NormalizeInit ==
    /\ n_rating \in Ratings
    /\ n_outcome \in SummaryOutcomes
    /\ n_result = Pending
    /\ LlmIdle
    /\ HandlerIdle
    /\ ExtractIdle
    /\ SaveIdle

NormalizeCall ==
    /\ n_result = Pending
    /\ n_result' = generate_summary_and_actions(n_rating, n_outcome)
    /\ UNCHANGED <<n_rating, n_outcome>>
    /\ UNCHANGED lvars
    /\ UNCHANGED pvars
    /\ UNCHANGED <<xvars, svars>>

SpecNormalize == NormalizeInit /\ [][NormalizeCall]_vars

\* what extract_json_from_response gave the try block (nothing when the call raised)
n_extracted ==
    IF n_outcome.kind = "reply" THEN extract_json_from_response(n_outcome.content)
    ELSE EmptyDict

n_done == n_result # Pending

(***************************************************************************)
(* call_llm, one pass of its loop per step                                 *)
(***************************************************************************)
\* faulty variant of LlmSuccess: the reply is kept and the loop goes on
LlmSuccessGoesOn ==
    /\ llm_pc = "loop"
    /\ attempt < max_retries
    /\ \E r \in RatingReplies :
          /\ events' = Append(events, CallEvent(RemoteReply(r)))
          /\ llm_ret' = r
    /\ attempt' = attempt + 1
    /\ UNCHANGED <<max_retries, llm_pc>>

\* the remote call returns: return response.choices[0].message.content
LlmSuccess ==
    /\ llm_pc = "loop"
    /\ attempt < max_retries
    /\ \E r \in RatingReplies :
          /\ events' = Append(events, CallEvent(RemoteReply(r)))
          /\ llm_ret' = r
    /\ llm_pc' = "returned"
    /\ UNCHANGED <<max_retries, attempt>>

\* the remote call raises: the except block
LlmFailure ==
    /\ llm_pc = "loop"
    /\ attempt < max_retries
    /\ \E e \in Errors :
          LET h == ExceptionHandler(max_retries, attempt, e)
          IN /\ events' = Append(events, CallEvent(RemoteFailed(e)))
                            \o [i \in 1..Len(h.sleeps) |-> SleepEvent(h.sleeps[i])]
             /\ IF h.do = "continue"
                THEN attempt' = attempt + 1 /\ UNCHANGED <<llm_pc, llm_ret>>
                ELSE IF h.do = "return"
                THEN llm_pc' = "returned" /\ llm_ret' = h.value /\ UNCHANGED attempt
                ELSE llm_pc' = "raised" /\ UNCHANGED <<attempt, llm_ret>>
    /\ UNCHANGED max_retries

\* the loop ran out: return "ERROR: Max retries exceeded"
LlmExhausted ==
    /\ llm_pc = "loop"
    /\ attempt >= max_retries
    /\ llm_pc' = "returned"
    /\ llm_ret' = MaxRetriesExceeded
    /\ UNCHANGED <<max_retries, attempt, events>>

CallInit ==
    /\ max_retries \in 0..MaxRetriesBound
    /\ attempt = 0
    /\ events = <<>>
    /\ llm_pc = "loop"
    /\ llm_ret = Unset
    /\ NormalizeIdle
    /\ HandlerIdle
    /\ ExtractIdle
    /\ SaveIdle

CallNext ==
    \/ LlmSuccess /\ UNCHANGED <<nvars, xvars, svars, pvars>>
    \/ LlmFailure /\ UNCHANGED <<nvars, xvars, svars, pvars>>
    \/ LlmExhausted /\ UNCHANGED <<nvars, xvars, svars, pvars>>

SpecCall == CallInit /\ [][CallNext]_vars

(***************************************************************************)
(* extract_json_from_response applied to every text                        *)
(***************************************************************************)
ExtractInit ==
    /\ x_response \in ExtractInputs
    /\ x_result = Pending
    /\ NormalizeIdle
    /\ LlmIdle
    /\ HandlerIdle
    /\ SaveIdle

ExtractCall ==
    /\ x_result = Pending
    /\ x_result' = [status |-> "return", value |-> extract_json_from_response(x_response)]
    /\ UNCHANGED x_response
    /\ UNCHANGED <<nvars, lvars, pvars, svars>>

SpecExtract == ExtractInit /\ [][ExtractCall]_vars

(***************************************************************************)
(* save_submission called by several submit_review pipelines               *)
(*                                                                         *)
(* The handlers are `async def` and await nothing: inside one server       *)
(* process a handler runs to its end before the next one starts.  Handlers *)
(* of different server processes of the same app interleave at their file  *)
(* and database operations.                                                *)
(***************************************************************************)
Pipelines == 1..MaxPipelines
Workers == 1..MaxWorkers

\* the review of pipeline p (one review per pipeline)
SubmissionText(p) == ReviewText(0, MinLength + p, 0)

\* the values submit_review can put in a record: a rating of the request, the
\* predicted_stars of the rating call as extracted (an integer in or out of
\* range, null, a string), a canonical sentiment
SavedRatings == {2, MaxRating}
SavedStars == {IntVal(MaxRating), IntVal(MaxRating + 1), NullVal, StrVal(Lit("five"))}
SavedSentiments == {Positive, Negative}

\* the dict submit_review passes to save_submission
SubmissionData(p, user_rating, stars, sentiment) ==
    [user_rating |-> user_rating, review_text |-> SubmissionText(p),
     ai_predicted_rating |-> stars, sentiment |-> sentiment]

SubmissionDicts(p) ==
    {SubmissionData(p, u, st, se) :
        u \in SavedRatings, st \in SavedStars, se \in SavedSentiments}

SaveInit ==
    /\ s_backend \in {"csv", "mongo"}
    /\ s_worker \in [Pipelines -> Workers]
    /\ s_pc = [p \in Pipelines |-> "ready"]
    /\ s_id = [p \in Pipelines |-> ""]
    /\ s_df = [p \in Pipelines |-> <<>>]
    /\ s_data = [p \in Pipelines |-> EmptyDict]
    /\ a_report = Pending
    /\ NormalizeIdle
    /\ LlmIdle
    /\ HandlerIdle
    /\ ExtractIdle

\* what save_submission leaves alone
SaveFrame ==
    /\ UNCHANGED <<p_pc, p_req, p_raw, p_prediction, p_triple, p_reply, p_resp>>
    /\ UNCHANGED <<nvars, lvars, xvars>>

\* a handler of server process w is inside save_submission
Busy(w) == \E q \in Pipelines : s_worker[q] = w /\ s_pc[q] = "read"

\* database.py: submission_id = str(uuid.uuid4())[:8] ... df = pd.read_csv(SUBMISSIONS_FILE)
CsvRead(p) ==
    /\ s_backend = "csv"
    /\ s_pc[p] = "ready"
    /\ ~Busy(s_worker[p])
    /\ \E data \in SubmissionDicts(p) : s_data' = [s_data EXCEPT ![p] = data]
    /\ \E id \in SubmissionIds : s_id' = [s_id EXCEPT ![p] = id]
    /\ s_df' = [s_df EXCEPT ![p] = store]
    /\ s_pc' = [s_pc EXCEPT ![p] = "read"]
    /\ UNCHANGED <<s_backend, s_worker, store, a_report>>
    /\ SaveFrame

\* database.py: df = pd.concat([df, pd.DataFrame([new_row])]); df.to_csv(SUBMISSIONS_FILE)
CsvWrite(p) ==
    /\ s_backend = "csv"
    /\ s_pc[p] = "read"
    /\ store' = save_submission(s_df[p], s_id[p], s_data[p])
    /\ s_pc' = [s_pc EXCEPT ![p] = "saved"]
    /\ UNCHANGED <<s_backend, s_worker, s_id, s_df, s_data, a_report>>
    /\ SaveFrame

\* the _id values of the collection
StoredIds(rows) == {rows[i].submission_id : i \in 1..Len(rows)}

\* server/database.py: submissions_collection.insert_one(document), with
\* '_id': submission_id; a duplicate _id raises and the handler answers 500
MongoInsert(p) ==
    /\ s_backend = "mongo"
    /\ s_pc[p] = "ready"
    /\ \E id \in SubmissionIds, data \in SubmissionDicts(p) :
          /\ s_id' = [s_id EXCEPT ![p] = id]
          /\ s_data' = [s_data EXCEPT ![p] = data]
          /\ IF id \in StoredIds(store)
             THEN /\ s_pc' = [s_pc EXCEPT ![p] = "failed"]
                  /\ UNCHANGED store
             ELSE /\ s_pc' = [s_pc EXCEPT ![p] = "saved"]
                  /\ store' = save_submission(store, id, data)
    /\ UNCHANGED <<s_backend, s_worker, s_df, a_report>>
    /\ SaveFrame

(***************************************************************************)
(* get_analytics                                                           *)
(***************************************************************************)
\* a float rounded to two decimals, kept as its hundredths; NaN
Num(h) == [j |-> "num", h |-> h]
NaN == [j |-> "nan"]

\* round(num / den, 2) for num >= 0, den > 0, in hundredths (no quotient
\* of the stores modelled lies halfway between two hundredths)
Round2(num, den) == (200 * num + den) \div (2 * den)

\* a column as a sequence
Column(rows, field) == [i \in 1..Len(rows) |-> rows[i][field]]

RECURSIVE SumInts(_)
SumInts(seq) == IF seq = <<>> THEN 0 ELSE Head(seq) + SumInts(Tail(seq))

\* value_counts().to_dict() / the counting loops: each value of the field
\* with the number of rows that hold it
Distribution(rows, field) ==
    [v \in {rows[i][field] : i \in 1..Len(rows)} |->
        Cardinality({i \in 1..Len(rows) : rows[i][field] = v})]

\* the report for no submissions (both backends)
EmptyAnalytics ==
    [status |-> "return", total_submissions |-> 0,
     average_user_rating |-> Num(0), average_predicted_rating |-> Num(0),
     accuracy |-> Num(0),
     sentiment_distribution |-> EmptyDict, rating_distribution |-> EmptyDict]

\* database.py: the rows come back from pd.read_csv; a null predicted rating
\* is read as NaN (left out of the mean, equal to no rating), a predicted
\* rating that is no number makes the column one of strings, whose mean()
\* raises TypeError
csv_get_analytics(rows) ==
    IF Len(rows) = 0 THEN EmptyAnalytics
    ELSE IF \E i \in 1..Len(rows) : rows[i].ai_predicted_rating.j = "str"
    THEN Raised
    ELSE LET total == Len(rows)
             rated == SelectSeq(rows, LAMBDA r : r.ai_predicted_rating.j = "int")
             matches == {i \in 1..total :
                            /\ rows[i].ai_predicted_rating.j = "int"
                            /\ rows[i].ai_predicted_rating.n = rows[i].user_rating}
         IN [status |-> "return",
             total_submissions |-> total,
             average_user_rating |->
                 Num(Round2(SumInts(Column(rows, "user_rating")), total)),
             average_predicted_rating |->
                 IF rated = <<>> THEN NaN
                 ELSE Num(Round2(SumInts([i \in 1..Len(rated) |->
                                            rated[i].ai_predicted_rating.n]),
                                 Len(rated))),
             accuracy |-> Num(Round2(Cardinality(matches) * 100, total)),
             sentiment_distribution |-> Distribution(rows, "sentiment"),
             rating_distribution |-> Distribution(rows, "user_rating")]

\* server/database.py: the documents as stored; sum(predicted_ratings)
\* raises TypeError when a predicted rating is null or a string
mongo_get_analytics(rows) ==
    IF Len(rows) = 0 THEN EmptyAnalytics
    ELSE IF \E i \in 1..Len(rows) : rows[i].ai_predicted_rating.j # "int"
    THEN Raised
    ELSE LET total == Len(rows)
             matches == {i \in 1..total :
                            rows[i].ai_predicted_rating.n = rows[i].user_rating}
         IN [status |-> "return",
             total_submissions |-> total,
             average_user_rating |->
                 Num(Round2(SumInts(Column(rows, "user_rating")), total)),
             average_predicted_rating |->
                 Num(Round2(SumInts([i \in 1..total |->
                                       rows[i].ai_predicted_rating.n]), total)),
             accuracy |-> Num(Round2(Cardinality(matches) * 100, total)),
             sentiment_distribution |-> Distribution(rows, "sentiment"),
             rating_distribution |-> Distribution(rows, "user_rating")]

\* GET /api/admin/analytics: get_analytics() of the backend in use
GetAnalytics ==
    /\ a_report' = IF s_backend = "csv" THEN csv_get_analytics(store)
                   ELSE mongo_get_analytics(store)
    /\ UNCHANGED <<s_backend, s_worker, s_pc, s_id, s_df, s_data, store>>
    /\ SaveFrame

SaveNext ==
    \/ \E p \in Pipelines : CsvRead(p)
    \/ \E p \in Pipelines : CsvWrite(p)
    \/ \E p \in Pipelines : MongoInsert(p)
    \/ GetAnalytics

SpecSave == SaveInit /\ [][SaveNext]_vars

\* the remote calls made and the seconds slept, in order
Calls == SelectSeq(events, LAMBDA x : x.ev = "call")
Sleeps == SelectSeq(events, LAMBDA x : x.ev = "sleep")
Waits == [i \in 1..Len(Sleeps) |-> Sleeps[i].secs]

RECURSIVE Sum(_)
Sum(seq) == IF seq = <<>> THEN 0 ELSE Head(seq) + Sum(Tail(seq))

(***************************************************************************)
(* The handlers: submit_review and the /api/predict endpoints              *)
(***************************************************************************)
\* predict_rating calls call_llm(review_text, prompt_func) with the default
\* max_retries
StartCallLlm ==
    /\ max_retries' = DefaultMaxRetries
    /\ attempt' = 0
    /\ events' = <<>>
    /\ llm_pc' = "loop"
    /\ llm_ret' = Unset

\* raise HTTPException(status_code=500, ...)
Fail500 ==
    /\ p_resp' = HttpError
    /\ p_pc' = "done"

\* POST /api/user/submit: the body is validated as a ReviewSubmission, then
\* submit_review starts with predict_rating(..., "v3"); sent_text is the
\* review_text of the body as sent, review_text the validated field
ReceiveSubmit ==
    /\ p_pc = "idle"
    /\ \E rating \in RequestRatings, text \in RequestTexts :
          IF ReviewSubmissionValid(rating, text)
          THEN /\ p_req' = [endpoint |-> "submit", rating |-> rating,
                            review_text |-> clean_review(text), version |-> "v3",
                            sent_text |-> text]
               /\ p_pc' = "predict"
               /\ StartCallLlm
               /\ UNCHANGED p_resp
          ELSE /\ p_req' = [endpoint |-> "submit", rating |-> rating,
                            review_text |-> text, version |-> "v3",
                            sent_text |-> text]
               /\ p_pc' = "done"
               /\ p_resp' = Unprocessable
               /\ UNCHANGED lvars
    /\ UNCHANGED <<p_raw, p_prediction, p_triple, p_reply, store>>
    /\ UNCHANGED <<nvars, xvars, svars>>

PredictEndpoints == {"predict_v1", "predict_v2", "predict_v3", "predict"}

\* the prompt version an endpoint passes to predict_rating
VersionUsed(endpoint, requested) ==
    CASE endpoint = "predict_v1" -> "v1"
      [] endpoint = "predict_v2" -> "v2"
      [] endpoint = "predict_v3" -> "v3"
      [] OTHER -> requested

\* POST /api/predict[/v1|/v2|/v3]: the body is validated as a
\* PredictionRequest, then the endpoint starts with predict_rating
ReceivePredict ==
    /\ p_pc = "idle"
    /\ \E endpoint \in PredictEndpoints, text \in RequestTexts,
          version \in PromptVersions \cup {"v9"} :
          IF PredictionRequestValid(text, version)
          THEN /\ p_req' = [endpoint |-> endpoint, review_text |-> text,
                            version |-> VersionUsed(endpoint, version)]
               /\ p_pc' = "predict"
               /\ StartCallLlm
               /\ UNCHANGED p_resp
          ELSE /\ p_req' = [endpoint |-> endpoint, review_text |-> text,
                            version |-> version]
               /\ p_pc' = "done"
               /\ p_resp' = Unprocessable
               /\ UNCHANGED lvars
    /\ UNCHANGED <<p_raw, p_prediction, p_triple, p_reply, store>>
    /\ UNCHANGED <<nvars, xvars, svars>>

\* predict_rating: return extract_json_from_response(raw_response)
PredictRating ==
    /\ p_pc = "predict"
    /\ llm_pc \in {"returned", "raised"}
    /\ IF llm_pc = "returned"
       THEN /\ p_raw' = llm_ret
            /\ p_prediction' = extract_json_from_response(llm_ret)
            /\ p_pc' = "predicted"
            /\ UNCHANGED p_resp
       ELSE Fail500 /\ UNCHANGED <<p_raw, p_prediction>>
    /\ max_retries' = DefaultMaxRetries
    /\ attempt' = 0
    /\ events' = <<>>
    /\ llm_pc' = "idle"
    /\ llm_ret' = Unset
    /\ UNCHANGED <<p_req, p_triple, p_reply, store>>
    /\ UNCHANGED <<nvars, xvars, svars>>

\* submit_review, step 2: generate_summary_and_actions(review_text, rating,
\* prediction['predicted_stars']); the function makes its one remote call
\* itself (client.chat.completions.create inside its try block)
Summarize ==
    /\ p_pc = "predicted"
    /\ p_req.endpoint = "submit"
    /\ IF ~Subscript(p_prediction, "predicted_stars").ok
       THEN Fail500 /\ UNCHANGED <<p_triple, events>>
       ELSE \E o \in HandlerSummaryOutcomes :
               LET t == generate_summary_and_actions(p_req.rating, o)
               IN /\ events' = <<CallEvent(o)>>
                  /\ IF t.status = "raise"
                     THEN Fail500 /\ UNCHANGED p_triple
                     ELSE p_triple' = t /\ p_pc' = "summarized" /\ UNCHANGED p_resp
    /\ UNCHANGED <<p_req, p_raw, p_prediction, p_reply, store>>
    /\ UNCHANGED <<max_retries, attempt, llm_pc, llm_ret>>
    /\ UNCHANGED <<nvars, xvars, svars>>

\* submit_review, step 3: generate_user_response(review_text, rating); the
\* function makes its one remote call itself
Reply ==
    /\ p_pc = "summarized"
    /\ \E o \in ReplyOutcomes :
          /\ p_reply' = generate_user_response(p_req.rating, o)
          /\ events' = <<CallEvent(o)>>
    /\ p_pc' = "replied"
    /\ UNCHANGED <<p_req, p_raw, p_prediction, p_triple, p_resp, store>>
    /\ UNCHANGED <<max_retries, attempt, llm_pc, llm_ret>>
    /\ UNCHANGED <<nvars, xvars, svars>>

\* faulty variant of Save: the record is saved before the reply is generated
SaveBeforeReply ==
    /\ p_pc = "summarized"
    /\ IF \/ ~Subscript(p_prediction, "predicted_stars").ok
          \/ ~Subscript(p_prediction, "explanation").ok
       THEN Fail500 /\ UNCHANGED store
       ELSE /\ \E id \in SubmissionIds :
                  store' = save_submission(store, id,
                      [user_rating |-> p_req.rating,
                       review_text |-> p_req.review_text,
                       ai_predicted_rating |-> Subscript(p_prediction, "predicted_stars").val,
                       ai_explanation |-> Subscript(p_prediction, "explanation").val,
                       ai_summary |-> p_triple.summary,
                       recommended_actions |-> p_triple.actions,
                       sentiment |-> p_triple.sentiment,
                       user_response |-> p_reply])
            /\ p_pc' = "saved"
            /\ UNCHANGED p_resp
    /\ UNCHANGED <<p_req, p_raw, p_prediction, p_triple, p_reply>>
    /\ UNCHANGED <<nvars, xvars, svars, lvars>>

\* submit_review, step 4: save_submission({...})
Save ==
    /\ p_pc = "replied"
    /\ IF \/ ~Subscript(p_prediction, "predicted_stars").ok
          \/ ~Subscript(p_prediction, "explanation").ok
       THEN Fail500 /\ UNCHANGED store
       ELSE /\ \E id \in SubmissionIds :
                  store' = save_submission(store, id,
                      [user_rating |-> p_req.rating,
                       review_text |-> p_req.review_text,
                       ai_predicted_rating |-> Subscript(p_prediction, "predicted_stars").val,
                       ai_explanation |-> Subscript(p_prediction, "explanation").val,
                       ai_summary |-> p_triple.summary,
                       recommended_actions |-> p_triple.actions,
                       sentiment |-> p_triple.sentiment,
                       user_response |-> p_reply])
            /\ p_pc' = "saved"
            /\ UNCHANGED p_resp
    /\ UNCHANGED <<p_req, p_raw, p_prediction, p_triple, p_reply>>
    /\ UNCHANGED <<nvars, xvars, svars, lvars>>

\* submit_review: return AIResponse(...), validated by the model's fields
Respond ==
    /\ p_pc = "saved"
    /\ p_pc' = "done"
    /\ IF AIResponseValid(Subscript(p_prediction, "predicted_stars").val,
                          Subscript(p_prediction, "explanation").val,
                          p_triple.actions)
       THEN p_resp' = [code |-> 200,
                       predicted_stars |-> Subscript(p_prediction, "predicted_stars").val,
                       explanation |-> Subscript(p_prediction, "explanation").val,
                       ai_summary |-> p_triple.summary,
                       recommended_actions |-> p_triple.actions,
                       sentiment |-> p_triple.sentiment,
                       submission_id |-> store[Len(store)].submission_id]
       ELSE p_resp' = HttpError
    /\ UNCHANGED <<p_req, p_raw, p_prediction, p_triple, p_reply, store>>
    /\ UNCHANGED <<nvars, xvars, svars, lvars>>

\* predict_v1, predict_v2, predict_v3, predict_any: return
\* PredictionResponse(predicted_stars=result['predicted_stars'], ...)
RespondPrediction ==
    /\ p_pc = "predicted"
    /\ p_req.endpoint \in PredictEndpoints
    /\ p_pc' = "done"
    /\ LET stars == Subscript(p_prediction, "predicted_stars")
           explanation == Subscript(p_prediction, "explanation")
       IN IF stars.ok /\ explanation.ok /\ PredictionResponseValid(stars.val, explanation.val)
          THEN p_resp' = [code |-> 200,
                          predicted_stars |-> stars.val,
                          explanation |-> explanation.val,
                          prompt_version |-> p_req.version]
          ELSE p_resp' = HttpError
    /\ UNCHANGED <<p_req, p_raw, p_prediction, p_triple, p_reply, store>>
    /\ UNCHANGED <<nvars, xvars, svars, lvars>>

Init == NormalizeIdle /\ LlmIdle /\ HandlerIdle /\ ExtractIdle /\ SaveIdle

Next ==
    \/ ReceiveSubmit
    \/ ReceivePredict
    \/ LlmSuccess /\ UNCHANGED <<nvars, xvars, svars, pvars>>
    \/ LlmFailure /\ UNCHANGED <<nvars, xvars, svars, pvars>>
    \/ LlmExhausted /\ UNCHANGED <<nvars, xvars, svars, pvars>>
    \/ PredictRating
    \/ Summarize
    \/ Reply
    \/ Save
    \/ Respond
    \/ RespondPrediction

Spec == Init /\ [][Next]_vars

(***************************************************************************)
(* Claims about generate_summary_and_actions (checked under SpecNormalize) *)
(***************************************************************************)
n_has(key) == key \in DOMAIN n_extracted
C2_ExtractedActionsKept ==
    (n_done /\ n_has("actions") /\ n_extracted["actions"].j = "list") =>
        LET given == n_extracted["actions"].items
            k == Min(Len(given), NumActions)
        IN /\ n_result.status = "return"
           /\ n_result.actions.j = "list"
           /\ Len(n_result.actions.items) = NumActions
           /\ SubSeq(n_result.actions.items, 1, k) = SubSeq(given, 1, k)

\* C3: when the extracted sentiment is absent or is no canonical value, the
\* returned sentiment is the one derived from user_rating.
C3_SentimentDerivedWhenInvalid ==
    (n_done /\ (~n_has("sentiment")
                  \/ n_extracted["sentiment"].j # "str"
                  \/ strip(n_extracted["sentiment"].s) \notin Canonical)) =>
        /\ n_result.status = "return"
        /\ n_result.sentiment = SentimentOfRating(n_rating)

\* C4: the returned sentiment is one of Positive, Negative, Mixed, whatever
\* the extracted sentiment is.
C4_SentimentCanonical ==
    n_done => (n_result.status = "return" /\ n_result.sentiment \in Canonical)

C4_Witness ==
    /\ n_done
    /\ n_has("sentiment")
    /\ n_extracted["sentiment"] = StrVal(Lit("Great!"))
    /\ n_result.sentiment \in Canonical

\* C5: the returned summary has at least 20 characters: the extracted summary,
\* trimmed, when that has 20 characters or more, and otherwise the sentence of
\* the user_rating band with the rating in it.
C5_SummaryContract ==
    n_done =>
        /\ n_result.status = "return"
        /\ StrLen(n_result.summary) >= MinSummaryLen
        /\ IF /\ n_has("summary")
              /\ n_extracted["summary"].j = "str"
              /\ StrLen(strip(n_extracted["summary"].s)) >= MinSummaryLen
           THEN n_result.summary = strip(n_extracted["summary"].s)
           ELSE n_result.summary \in {FallbackSummary(n_rating), ExceptSummary(n_rating)}

\* C6: whatever the model call does (raises, empty text, text without JSON,
\* JSON with missing or wrongly typed fields) the function returns a triple
\* and raises nothing to its caller.
C6_NeverRaises ==
    n_done => n_result.status = "return"

C6_Witness ==
    /\ n_done
    /\ n_outcome.kind = "reply"
    /\ TryBlock(n_rating, n_outcome.content) = Raised
    /\ n_result.status = "return"

\* the function applied again, with the triple it returned as the extracted
\* fields
Renormalized(user_rating, t) ==
    LET again == Normalize(user_rating,
                           [summary |-> StrVal(t.summary), actions |-> t.actions,
                            sentiment |-> StrVal(t.sentiment)])
    IN IF again.status = "raise" THEN ExceptBlock(user_rating) ELSE again

\* C17: the repair is idempotent: with the returned summary, actions and
\* sentiment as the extracted fields and the same user_rating, the function
\* returns the same triple.
C17_NormalizeIdempotent ==
    n_done => Renormalized(n_rating, n_result) = n_result

C17_Witness ==
    /\ n_done
    /\ n_has("summary") /\ n_has("actions") /\ n_has("sentiment")
    /\ n_extracted["summary"].j = "str"
    /\ n_extracted["summary"].s.lead > 0
    /\ StrLen(strip(n_extracted["summary"].s)) >= MinSummaryLen
    /\ n_extracted["actions"].j = "list"
    /\ Len(n_extracted["actions"].items) > NumActions
    /\ n_extracted["sentiment"] = StrVal(Lit("Great!"))
    /\ n_result.summary = strip(n_extracted["summary"].s)
    /\ Renormalized(n_rating, n_result) = n_result

\* the extracted field is valid as it stands: a summary of 20 characters or
\* more, a list of three actions or more, a canonical sentiment
n_valid(key) ==
    /\ n_has(key)
    /\ CASE key = "summary" ->
               /\ n_extracted[key].j = "str"
               /\ StrLen(strip(n_extracted[key].s)) >= MinSummaryLen
          [] key = "actions" ->
               /\ n_extracted[key].j = "list"
               /\ Len(n_extracted[key].items) >= NumActions
          [] key = "sentiment" ->
               /\ n_extracted[key].j = "str"
               /\ strip(n_extracted[key].s) \in Canonical

\* C28: summary, actions and sentiment are repaired independently: when the
\* model call replied and an extracted field is valid, that field is returned
\* from the model output (trimmed; the first three actions) whatever the
\* other two fields hold.
C28_FieldsRepairedIndependently ==
    (n_done /\ n_outcome.kind = "reply") =>
        /\ n_result.status = "return"
        /\ n_valid("summary") =>
              n_result.summary = strip(n_extracted["summary"].s)
        /\ n_valid("actions") =>
              n_result.actions = ListVal(FirstThree(n_extracted["actions"].items))
        /\ n_valid("sentiment") =>
              n_result.sentiment = strip(n_extracted["sentiment"].s)

(***************************************************************************)
(* Claims about call_llm (checked under SpecCall)                          *)
(***************************************************************************)
RateLimited(e) == e.has_rate \/ e.has_429

\* C9: call_llm raises nothing: for every max_retries >= 0 and every sequence
\* of attempt outcomes it returns the text of a successful attempt (the last
\* one made) or a marker that starts with ERROR.
C9_CallNeverRaises ==
    /\ llm_pc # "raised"
    /\ llm_pc = "returned" =>
          \/ /\ Calls # <<>>
             /\ Calls[Len(Calls)].outcome = RemoteReply(llm_ret)
          \/ /\ \A i \in 1..Len(Calls) : Calls[i].outcome.kind = "raise"
             /\ llm_ret.kind = "text"
             /\ StartsWithError(llm_ret.toks)

C9_Witness ==
    /\ llm_pc = "returned"
    /\ Len(Calls) = max_retries
    /\ max_retries > 0
    /\ Calls[Len(Calls)].outcome.kind = "raise"
    /\ ~RateLimited(Calls[Len(Calls)].outcome.err)
    /\ StartsWithError(llm_ret.toks)

\* C10: when every attempt fails with a rate-limit error and max_retries = n,
\* exactly n remote calls are made, the waits are 2, 4, ..., 2^n seconds and
\* the call returns the marker of exhausted retries.
C10_RateLimitedBackoff ==
    (/\ llm_pc = "returned"
     /\ \A i \in 1..Len(Calls) :
           Calls[i].outcome.kind = "raise" /\ RateLimited(Calls[i].outcome.err)) =>
        /\ Len(Calls) = max_retries
        /\ Waits = [i \in 1..max_retries |-> Pow2(i)]
        /\ llm_ret = MaxRetriesExceeded

C10_Witness ==
    /\ llm_pc = "returned"
    /\ max_retries = 3
    /\ \A i \in 1..Len(Calls) :
          Calls[i].outcome.kind = "raise" /\ RateLimited(Calls[i].outcome.err)
    /\ Len(Calls) = 3
    /\ Waits = <<2, 4, 8>>
    /\ Sum(Waits) = 14
    /\ llm_ret = MaxRetriesExceeded

AllCallsFailed ==
    \A i \in 1..Len(Calls) : Calls[i].outcome.kind = "raise"

\* C11: when call_llm returns after attempts that all failed, the marker it
\* returns carries the message of the last failed attempt, whatever the mix
\* of rate-limit and other errors, a rate-limit error on the last attempt
\* included.
C11_MarkerCarriesLastError ==
    (llm_pc = "returned" /\ Calls # <<>> /\ AllCallsFailed) =>
        llm_ret = ErrorMarker(Calls[Len(Calls)].outcome.err.msg)

\* the event at position p is a remote call that raised
FailedAt(p) == events[p].ev = "call" /\ events[p].outcome.kind = "raise"

\* the 0-based index of the attempt whose call is at position p: the number
\* of calls made before it
AttemptIndex(p) == Cardinality({q \in 1..(p - 1) : events[q].ev = "call"})

\* the wait the claim gives for an error of that class at attempt k
ClaimedWait(e, k) == IF RateLimited(e) THEN Pow2(k) * 2 ELSE 2

\* C20 as stated: every failed attempt is followed by a wait, of 2^k * 2
\* seconds after a rate-limit error and of 2 seconds after any other error,
\* k being the 0-based index of the attempt within the call.
C20_WaitAfterEveryFailure ==
    \A p \in 1..Len(events) :
        FailedAt(p) =>
            /\ p < Len(events)
            /\ events[p + 1] = SleepEvent(ClaimedWait(events[p].outcome.err, AttemptIndex(p)))

\* C20 amended: the wait after the failed attempt of index k is 2^k * 2 seconds
\* after a rate-limit error (the last attempt included) and 2 seconds after
\* any other error unless that attempt was the last one (k = max_retries - 1):
\* then the call returns at once, without waiting.  Nothing else is slept.
C20_WaitByClassAndIndex ==
    /\ \A p \in 1..Len(events) :
          FailedAt(p) =>
              LET e == events[p].outcome.err
                  k == AttemptIndex(p)
              IN IF RateLimited(e) \/ k < max_retries - 1
                 THEN /\ p < Len(events)
                      /\ events[p + 1] = SleepEvent(ClaimedWait(e, k))
                 ELSE /\ p = Len(events)
                      /\ llm_pc = "returned"
    /\ \A p \in 1..Len(events) :
          events[p].ev = "sleep" => (p > 1 /\ FailedAt(p - 1))

C20_Witness ==
    /\ llm_pc = "returned"
    /\ max_retries = 3
    /\ Len(Calls) = 3
    /\ AllCallsFailed
    /\ ~RateLimited(Calls[1].outcome.err)
    /\ RateLimited(Calls[2].outcome.err)
    /\ ~RateLimited(Calls[3].outcome.err)
    /\ Waits = <<2, 4>>

\* the event at position p is a remote call that returned a reply
SucceededAt(p) == events[p].ev = "call" /\ events[p].outcome.kind = "reply"

\* C26: call_llm makes at most max_retries remote calls, and an attempt that
\* succeeds ends the call: its text is returned at once, with no further
\* remote call and no further wait.
C26_BoundedCallsAndPromptReturn ==
    /\ Len(Calls) <= max_retries
    /\ \A p \in 1..Len(events) :
          SucceededAt(p) =>
              /\ p = Len(events)
              /\ llm_pc = "returned"
              /\ llm_ret = events[p].outcome.content

C26_Witness ==
    /\ llm_pc = "returned"
    /\ max_retries = 3
    /\ Len(Calls) = 3
    /\ Len(Sleeps) = 2
    /\ SucceededAt(Len(events))
    /\ llm_ret = events[Len(events)].outcome.content

\* C27: call_llm never waits without retrying: when it returns, the last
\* thing it did was a remote call, not a sleep, whatever the class of the
\* last attempt's error.
C27_NoWaitAfterLastAttempt ==
    (llm_pc = "returned" /\ events # <<>>) => events[Len(events)].ev = "call"

(***************************************************************************)
(* Claims about extract_json_from_response (checked under SpecExtract)     *)
(***************************************************************************)
x_done == x_result # Pending

x_toks == IF x_response.kind = "text" THEN x_response.toks ELSE <<>>

\* the positions of the "key": value members of the text, their keys, and
\* the value the text gives a key (a key occurs at most once in a text)
x_members == {i \in 1..Len(x_toks) : x_toks[i].t = "member"}
x_keys == {x_toks[i].key : i \in x_members}
x_field(k) == x_toks[CHOOSE i \in x_members : x_toks[i].key = k].val

\* the value has the type of its field: an integer, a string, a list of
\* strings
ValidField(k, v) ==
    CASE k = "predicted_stars" -> IsInt(v)
      [] k = "actions" -> IsStrList(v)
      [] OTHER -> IsStr(v)

\* the text is an object cut before its closing brace
x_truncated ==
    /\ x_toks # <<>>
    /\ x_toks[1] = LB
    /\ \A i \in 2..Len(x_toks) : x_toks[i].t \in {"member", "comma"}

\* the text is an object with exactly one member that is no JSON value
x_one_malformed ==
    /\ Len(x_toks) >= 3
    /\ x_toks[1] = LB
    /\ x_toks[Len(x_toks)] = RB
    /\ \A i \in 2..(Len(x_toks) - 1) : x_toks[i].t \in {"member", "comma"}
    /\ Cardinality({i \in x_members : x_toks[i].val = BadVal}) = 1

\* what the fallback is to give for an intact field: its value, the first
\* three entries for actions
Recovered(k, v) == IF k = "actions" THEN ListVal(FirstThree(v.items)) ELSE v

\* C13: from a text whose object is truncated (cut before any closing brace
\* included) or has one malformed field, every field of the five that is
\* intact in the text (a value of the field's type) is returned with its own
\* value, and no key is returned that the text does not hold or with a value
\* other than its own.
C13_IntactFieldsRecovered ==
    (x_done /\ (x_truncated \/ x_one_malformed)) =>
        /\ x_result.status = "return"
        /\ \A k \in FiveKeys \cap x_keys :
              ValidField(k, x_field(k)) =>
                  /\ k \in DOMAIN x_result.value
                  /\ x_result.value[k] = Recovered(k, x_field(k))
        /\ \A k \in DOMAIN x_result.value :
              /\ k \in x_keys
              /\ IF k = "actions"
                 THEN /\ x_field(k).j = "list"
                      /\ \A i \in 1..Len(x_result.value[k].items) :
                            \E m \in 1..Len(x_field(k).items) :
                                x_result.value[k].items[i] = x_field(k).items[m]
                 ELSE x_result.value[k] = x_field(k)

\* C14: from a text that is a well-formed JSON object holding the five fields
\* with values of their types, each of the five fields is returned with
\* exactly the value in the text.
C14_WellFormedRecoveredExactly ==
    (/\ x_done
     /\ JsonParses(x_toks)
     /\ FiveKeys \subseteq x_keys
     /\ \A k \in FiveKeys : ValidField(k, x_field(k))) =>
        /\ x_result.status = "return"
        /\ FiveKeys \subseteq DOMAIN x_result.value
        /\ \A k \in FiveKeys : x_result.value[k] = x_field(k)

C14_Witness ==
    /\ x_done
    /\ JsonParses(x_toks)
    /\ FiveKeys \subseteq x_keys
    /\ \A k \in FiveKeys : ValidField(k, x_field(k))
    /\ Len(x_field("actions").items) > NumActions
    /\ x_result.value["actions"] = x_field("actions")
    /\ x_result.value["summary"] = StrVal(Str(MaxPad, "Too short", MaxPad))

\* the tokens are sentences and code-fence markers only
ProseOnly(seq) == \A i \in 1..Len(seq) : seq[i].t \in {"prose", "fence"}

\* the text is a well-formed object from position a to position b, with
\* code-fence markers or sentences before it, after it or both
x_wrapped(a, b) ==
    /\ 1 <= a
    /\ a < b
    /\ b <= Len(x_toks)
    /\ a > 1 \/ b < Len(x_toks)
    /\ ProseOnly(SubSeq(x_toks, 1, a - 1))
    /\ ProseOnly(SubSeq(x_toks, b + 1, Len(x_toks)))
    /\ JsonParses(SubSeq(x_toks, a, b))

\* C15: from a text made of a well-formed JSON object inside code-fence
\* markers, or with sentences before or after it (a sentence that begins
\* with the word ERROR included), the object is returned.
C15_WrappedObjectRecovered ==
    x_done =>
        \A a, b \in 1..Len(x_toks) :
            x_wrapped(a, b) =>
                /\ x_result.status = "return"
                /\ x_result.value = JsonLoads(SubSeq(x_toks, a, b))

\* the text begins with the word ERROR
x_marker == x_toks # <<>> /\ x_toks[1].t = "prose" /\ x_toks[1].s = "ERROR"

\* C16: from a failure marker (a text that starts with ERROR), the empty
\* text or None the function returns the empty dict and raises nothing.
C16_FailureMarkerGivesEmpty ==
    (x_done /\ (x_response.kind = "none" \/ x_toks = <<>> \/ x_marker)) =>
        x_result = [status |-> "return", value |-> EmptyDict]

C16_Witness ==
    /\ x_done
    /\ x_marker
    /\ \E a, b \in 1..Len(x_toks) : x_toks[a] = LB /\ x_toks[b] = RB /\ a < b
    /\ x_result = [status |-> "return", value |-> EmptyDict]

\* json.loads was given the text from the first '{' to the last '}' and
\* accepted it
x_strict ==
    /\ x_done
    /\ x_toks # <<>>
    /\ ~x_marker
    /\ LET text == RemoveSixBackticks(x_toks)
       IN /\ FindLB(text) # 0
          /\ RFindRB(text) > FindLB(text)
          /\ JsonParses(SubSeq(text, FindLB(text), RFindRB(text)))

\* C21: when the strict parse succeeds, only keys of the five recognised
\* ones are returned, and each returned value has the type of its field (a
\* value of another type is left out, not returned and not raised).
C21_StrictParseKeepsTypedFiveKeys ==
    x_strict =>
        /\ x_result.status = "return"
        /\ DOMAIN x_result.value \subseteq FiveKeys
        /\ \A k \in FiveKeys \cap DOMAIN x_result.value :
              ValidField(k, x_result.value[k])

(***************************************************************************)
(* Claims about save_submission (checked under SpecSave)                   *)
(***************************************************************************)
\* the store holds the record of pipeline p
Stored(p) ==
    \E i \in 1..Len(store) : store[i].review_text = SubmissionText(p)

\* C19: after any interleaving of pipelines that all saved successfully, the
\* store holds the record of every one of them, with the CSV file and with
\* the MongoDB collection.
C19_NoSubmissionLost ==
    (\A p \in Pipelines : s_pc[p] = "saved") => \A p \in Pipelines : Stored(p)

\* C29: after any sequence of saves every stored submission has a
\* submission_id distinct from that of every other stored submission, with
\* the CSV file and with the MongoDB collection.
C29_SubmissionIdsDistinct ==
    \A i, k \in 1..Len(store) :
        i # k => store[i].submission_id # store[k].submission_id

\* the counts of a distribution, added up
RECURSIVE SumCounts(_)
SumCounts(d) ==
    IF DOMAIN d = {} THEN 0
    ELSE LET v == CHOOSE v \in DOMAIN d : TRUE
         IN d[v] + SumCounts([w \in DOMAIN d \ {v} |-> d[w]])

\* the stored records whose predicted rating is the user's rating
MatchingRecords ==
    {i \in 1..Len(store) : store[i].ai_predicted_rating = IntVal(store[i].user_rating)}

\* the report r is the one the claim describes for the stored records
AnalyticsOf(r) ==
    /\ r.status = "return"
    /\ r.total_submissions = Len(store)
    /\ SumCounts(r.sentiment_distribution) = Len(store)
    /\ SumCounts(r.rating_distribution) = Len(store)
    /\ IF store = <<>>
       THEN /\ r.accuracy = Num(0)
            /\ r.average_user_rating = Num(0)
            /\ r.average_predicted_rating = Num(0)
            /\ r.sentiment_distribution = EmptyDict
            /\ r.rating_distribution = EmptyDict
       ELSE r.accuracy = Num(Round2(Cardinality(MatchingRecords) * 100, Len(store)))

\* C30: whenever get_analytics is called after any sequence of saves, its
\* report has total_submissions the number of stored records, sentiment and
\* rating distributions whose counts each add up to that number, and
\* accuracy the percentage of stored records whose user_rating equals
\* ai_predicted_rating; for no stored records it is total 0, averages 0,
\* accuracy 0 and empty distributions.
C30_AnalyticsConsistent ==
    [][a_report' # a_report => AnalyticsOf(a_report')]_vars

(***************************************************************************)
(* Claims about the handlers (checked under Spec)                          *)
(***************************************************************************)
p_predicted == p_pc \in {"predicted", "summarized", "replied", "saved", "done"} /\ p_raw # Unset

\* C7: when the rating call gives no parseable predicted_stars (a failure
\* marker, an empty extraction, an extraction without the key or with a value
\* that is no integer) submit_review and the /api/predict endpoints answer
\* 500, never a success with a rating put in its place.
C7_MissingRatingIsAnError ==
    (/\ p_predicted
     /\ \/ "predicted_stars" \notin DOMAIN p_prediction
        \/ ~IsInt(p_prediction["predicted_stars"])) =>
        /\ p_resp.code # 200
        /\ p_pc = "done" => p_resp.code = 500

C7_Witness ==
    /\ p_pc = "done"
    /\ p_raw = MaxRetriesExceeded
    /\ p_prediction = EmptyDict
    /\ p_req.endpoint = "submit"
    /\ p_resp.code = 500

\* a stage of submit_review that calls the remote model has finished:
\* call_llm has returned to predict_rating, or the summary or the reply has
\* been generated
StageFinished ==
    \/ p_pc = "predict" /\ llm_pc = "returned"
    \/ p_pc \in {"summarized", "replied"}

\* C12: in each stage of the submission pipeline that calls the remote model
\* (rating, summary, reply) a call that raises is retried: a stage whose last
\* remote call failed has made max_retries calls, with a wait between them.
C12_TransientFailuresRetried ==
    (/\ StageFinished
     /\ Calls # <<>>
     /\ Calls[Len(Calls)].outcome.kind = "raise") =>
        /\ Len(Calls) = DefaultMaxRetries
        /\ Len(Sleeps) >= DefaultMaxRetries - 1

C22_StoredRatingInRange ==
    \A i \in 1..Len(store) :
        /\ IsInt(store[i].ai_predicted_rating)
        /\ store[i].ai_predicted_rating.n >= MinRating
        /\ store[i].ai_predicted_rating.n <= MaxRating

\* the stages of one submit_review request, in their order
StageSteps ==
    {<<"idle", "predict">>, <<"predict", "predicted">>,
     <<"predicted", "summarized">>, <<"summarized", "replied">>,
     <<"replied", "saved">>, <<"saved", "done">>}

\* C23: within one submit_review request the stages run in sequence, each
\* finished before the next begins: rating prediction, summary generation,
\* reply generation, save, response; a stage may only give way to the next
\* one or to the error answer, and save_submission is invoked at most once
\* and only after the three model stages have finished.
C23_StagesInSequence ==
    [][p_req'.endpoint = "submit" =>
          /\ p_pc' # p_pc =>
                \/ <<p_pc, p_pc'>> \in StageSteps
                \/ p_pc' = "done" /\ p_resp'.code \in {422, 500}
          /\ p_pc' = "predicted" /\ p_pc # "predicted" =>
                llm_pc = "returned" /\ p_raw' = llm_ret
          /\ p_pc = "predict" /\ p_pc' = "predict" => UNCHANGED pvars
          /\ p_pc' = "summarized" /\ p_pc # "summarized" =>
                p_triple = Pending /\ p_triple'.status = "return" /\ llm_pc' = "idle"
          /\ p_pc' = "replied" /\ p_pc # "replied" =>
                p_triple' = p_triple /\ p_prediction' = p_prediction
          /\ store' # store =>
                /\ p_pc = "replied"
                /\ p_pc' = "saved"
                /\ store = <<>>
                /\ Len(store') = 1
                /\ p_raw # Unset
                /\ p_triple.status = "return"
                /\ store'[1].user_response = p_reply
                /\ llm_pc = "idle"
          /\ p_resp' # p_resp /\ p_resp'.code = 200 =>
                p_pc = "saved" /\ Len(store) = 1]_vars

C23_Witness ==
    /\ p_req.endpoint = "submit"
    /\ p_pc = "done"
    /\ p_resp.code = 200
    /\ Len(store) = 1
    /\ p_raw # Unset
    /\ p_triple.status = "return"
    /\ store[1].user_response = p_reply
    /\ p_reply # EmptyStr

\* C24: every review text that submit_review passes to the prompt builder is
\* non-empty: a request whose review_text is whitespace only never reaches
\* the model.
C24_PromptTextNonEmpty ==
    (p_req.endpoint = "submit" /\ Calls # <<>>) => TextLen(p_req.review_text) > 0

\* C25: submit_review persists a record if and only if it answers with
\* success: an answered request has left a record exactly when its answer
\* is the success response.
C25_StoredIffSuccess ==
    (p_req.endpoint = "submit" /\ p_pc = "done") =>
        (store # <<>> <=> p_resp.code = 200)

\* C8: every success response that carries a predicted rating has
\* predicted_stars an integer within 1..5.
C8_SuccessRatingInRange ==
    p_resp.code = 200 =>
        /\ IsInt(p_resp.predicted_stars)
        /\ p_resp.predicted_stars.n >= MinRating
        /\ p_resp.predicted_stars.n <= MaxRating
====
